---------------------------- MODULE Spec2Model ----------------------------
(***************************************************************************)
(* Conway's Game of Life for the Arduino Esplora (application.ino).        *)
(*                                                                         *)
(* The sketch keeps a 32 x 32 toroidal grid, a cursor, a play flag and the *)
(* last joystick-button level in file-scope globals.  setup() seeds the    *)
(* grid, loop() polls the inputs once per tick.  Every function of the     *)
(* sketch is an operator over a record of the globals (plus the display    *)
(* and a log of the calls made), loop() composes them in program order,    *)
(* and each specification below runs the sketch, or one of its functions,  *)
(* from states it can be in.                                               *)
(***************************************************************************)
EXTENDS Integers, Sequences, FiniteSets, TLC

VARIABLES
    current_state,       \* boolean current_state[ROWS][COLS]
    play,                \* boolean play
    lastR,               \* int lastR: cursor row
    lastC,               \* int lastC: cursor column
    lastJoystickButton,  \* boolean lastJoystickButton
    tft,                 \* the display: colour of the last rect drawn per cell
    pc,                  \* where the program is: "boot", "loop", "next", "commit"
    frame,               \* locals of next() while it is stepped cell by cell
    reads,               \* the current_state coordinates read for the last cell
    in,                  \* the inputs polled by the last tick
    seed,                \* the slider reading and random draws of the last randomize()
    pre,                 \* the globals before the last operation
    did,                 \* what the last operation did: calls made, local advance
    origin,              \* the grid the run started from (seeded by setup())
    hold,                \* the joystick-button hold in progress: ticks, flips made
    steps                \* operations run so far (bounds the exploration)

vars == <<current_state, play, lastR, lastC, lastJoystickButton, tft, pc,
          frame, reads, in, seed, pre, did, origin, hold, steps>>

---------------------------------------------------------------------------
(* Program constants *)

ROWS == 32
COLS == 32
LOW == 0
HIGH == 1

Rows == 0 .. ROWS - 1
Cols == 0 .. COLS - 1
Cells == Rows \X Cols

GridOf(S) == [r \in Rows |-> [c \in Cols |-> <<r, c>> \in S]]
AliveSet(G) == {p \in Cells : G[p[1]][p[2]]}
AllDead == GridOf({})

---------------------------------------------------------------------------
(* Display: setColor() selects the pen, rect() paints one cell with it *)

White == <<255, 255, 255>>
Black == <<0, 0, 0>>
Green == <<0, 204, 0>>
Orange == <<255, 153, 51>>

setColor(value, highlighted) ==
    IF value /\ highlighted THEN Green
    ELSE IF value /\ ~highlighted THEN Black
    ELSE IF highlighted THEN Orange
    ELSE White

\* EsploraTFT.rect(c * 5, r * 4, 5, 4): the 5 x 4 pixel block of cell (r, c)
rect(screen, r, c, colour) == [screen EXCEPT ![r][c] = colour]

Undrawn == [r \in Rows |-> [c \in Cols |-> <<>>]]
Background == [r \in Rows |-> [c \in Cols |-> White]]

---------------------------------------------------------------------------
(* next(): one generation *)

\* (a next() that forgets the test i != 0 || j != 0 and counts the cell itself)
OffsetsWithSelf == [k \in 1 .. 9 |-> <<((k - 1) \div 3) - 1, ((k - 1) % 3) - 1>>]

\* for (i = -1; i < 2; i++) for (j = -1; j < 2; j++) if (i != 0 || j != 0)
Offsets ==
    SelectSeq([k \in 1 .. 9 |-> <<((k - 1) \div 3) - 1, ((k - 1) % 3) - 1>>],
              LAMBDA o : o[1] # 0 \/ o[2] # 0)

\* (a wrap that clamps row -1 to row 0 instead of wrapping to the last row)
WrapRowClamp(y) == IF y = -1 THEN 0 ELSE IF y = 32 THEN 0 ELSE y

WrapRow(y) == IF y = -1 THEN 31 ELSE IF y = 32 THEN 0 ELSE y
WrapCol(x) == IF x = -1 THEN 31 ELSE IF x = 32 THEN 0 ELSE x

\* the <<y, x>> read by the k-th neighbour test of cell (r, c)
ReadAt(r, c, k) == <<WrapRow(r + Offsets[k][1]), WrapCol(c + Offsets[k][2])>>

\* every cell's reads, in loop order
Reads == [r \in Rows |-> [c \in Cols |-> [k \in 1 .. Len(Offsets) |-> ReadAt(r, c, k)]]]

\* liveNeighbors++ once per read that finds a live cell
liveNeighbors(G, r, c) ==
    LET yx == Reads[r][c]
    IN  Cardinality({k \in 1 .. Len(Offsets) : G[yx[k][1]][yx[k][2]]})

\* (a rule that lets any cell with 2 or 3 live neighbours live)
ruleBirthOnTwo(alive, n) == IF n >= 2 /\ n <= 3 THEN TRUE ELSE FALSE

\* (a rule that keeps a live cell only on 3 live neighbours)
ruleThreeOnly(alive, n) == IF n = 3 THEN TRUE ELSE FALSE

\* "apply the rules"
rule(alive, n) ==
    IF alive /\ n >= 2 /\ n <= 3 THEN TRUE
    ELSE IF ~alive /\ n = 3 THEN TRUE
    ELSE FALSE

cellValue(G, r, c) == rule(G[r][c], liveNeighbors(G, r, c))

\* the whole of next[][]: every cell computed from G
NextGen(G) == [r \in Rows |-> [c \in Cols |-> cellValue(G, r, c)]]

\* (a loop body that writes the new value straight into current_state)
stepCellInPlace(grid, buf, r, c) ==
    LET value == cellValue(grid, r, c)
    IN  [grid |-> [grid EXCEPT ![r][c] = value],
         buf |-> [buf EXCEPT ![r][c] = value],
         value |-> value]

\* one pass of the loop body, for cell (r, c): next[r][c] = value, the grid is
\* only read
stepCell(grid, buf, r, c) ==
    LET value == cellValue(grid, r, c)
    IN  [grid |-> grid, buf |-> [buf EXCEPT ![r][c] = value], value |-> value]

next(st) ==
    LET nxt == NextGen(st.current_state)
    IN  [st EXCEPT
            !.current_state = nxt,
            !.tft = [r \in Rows |-> [c \in Cols |->
                        setColor(nxt[r][c], r = st.lastR /\ c = st.lastC)]],
            !.calls = Append(@, "next")]

---------------------------------------------------------------------------
(* Cursor *)

\* (a move that forgets to wrap at column 0)
moveCursorLeftNoWrap(st) ==
    [st EXCEPT
        !.lastC = st.lastC - 1,
        !.tft = rect(st.tft, st.lastR, st.lastC,
                     setColor(st.current_state[st.lastR][st.lastC], FALSE)),
        !.calls = Append(@, "moveCursorLeft")]

moveCursorLeft(st) ==
    LET old == rect(st.tft, st.lastR, st.lastC,
                    setColor(st.current_state[st.lastR][st.lastC], FALSE))
        col == IF st.lastC = 0 THEN 31 ELSE st.lastC - 1
    IN  [st EXCEPT
            !.lastC = col,
            !.tft = rect(old, st.lastR, col, setColor(st.current_state[st.lastR][col], TRUE)),
            !.calls = Append(@, "moveCursorLeft")]

moveCursorRight(st) ==
    LET old == rect(st.tft, st.lastR, st.lastC,
                    setColor(st.current_state[st.lastR][st.lastC], FALSE))
        col == IF st.lastC = 31 THEN 0 ELSE st.lastC + 1
    IN  [st EXCEPT
            !.lastC = col,
            !.tft = rect(old, st.lastR, col, setColor(st.current_state[st.lastR][col], TRUE)),
            !.calls = Append(@, "moveCursorRight")]

\* (an up move pasted from the down move with the row step left as it was)
moveCursorUpAsDown(st) ==
    LET old == rect(st.tft, st.lastR, st.lastC,
                    setColor(st.current_state[st.lastR][st.lastC], FALSE))
        row == IF st.lastR = 0 THEN 31 ELSE st.lastR - 1
    IN  [st EXCEPT
            !.lastR = row,
            !.tft = rect(old, row, st.lastC, setColor(st.current_state[row][st.lastC], TRUE)),
            !.calls = Append(@, "moveCursorUp")]

moveCursorUp(st) ==
    LET old == rect(st.tft, st.lastR, st.lastC,
                    setColor(st.current_state[st.lastR][st.lastC], FALSE))
        row == IF st.lastR = 31 THEN 0 ELSE st.lastR + 1
    IN  [st EXCEPT
            !.lastR = row,
            !.tft = rect(old, row, st.lastC, setColor(st.current_state[row][st.lastC], TRUE)),
            !.calls = Append(@, "moveCursorUp")]

moveCursorDown(st) ==
    LET old == rect(st.tft, st.lastR, st.lastC,
                    setColor(st.current_state[st.lastR][st.lastC], FALSE))
        row == IF st.lastR = 0 THEN 31 ELSE st.lastR - 1
    IN  [st EXCEPT
            !.lastR = row,
            !.tft = rect(old, row, st.lastC, setColor(st.current_state[row][st.lastC], TRUE)),
            !.calls = Append(@, "moveCursorDown")]

\* (a flip that indexes the grid with the column first)
invertCurrentCellTransposed(st) ==
    LET value == ~st.current_state[st.lastC][st.lastR]
    IN  [st EXCEPT
            !.current_state[st.lastC][st.lastR] = value,
            !.tft = rect(st.tft, st.lastR, st.lastC, setColor(value, TRUE)),
            !.calls = Append(@, "invertCurrentCell")]

invertCurrentCell(st) ==
    LET value == ~st.current_state[st.lastR][st.lastC]
    IN  [st EXCEPT
            !.current_state[st.lastR][st.lastC] = value,
            !.tft = rect(st.tft, st.lastR, st.lastC, setColor(value, TRUE)),
            !.calls = Append(@, "invertCurrentCell")]

---------------------------------------------------------------------------
(* randomize(): seeding *)

\* Arduino map(): integer arithmetic, the division truncates
map(x, in_min, in_max, out_min, out_max) ==
    ((x - in_min) * (out_max - out_min)) \div (in_max - in_min) + out_min

\* random(1, 100) returns a value in [1, 99]
RandomRange == 1 .. 99

\* (a comparison that is strict)
seedValueStrict(num, slider) == num > slider

\* value = num >= slider
seedValue(num, slider) == num >= slider

\* (a seeding that draws every cell without the cursor highlight)
randomizeNoHighlight(st, reading, draws) ==
    LET slider == map(reading, 0, 1023, 0, 100)
        grid == [r \in Rows |-> [c \in Cols |-> seedValue(draws[r][c], slider)]]
    IN  [st EXCEPT
            !.current_state = grid,
            !.tft = [r \in Rows |-> [c \in Cols |-> setColor(grid[r][c], FALSE)]],
            !.calls = Append(@, "randomize")]

\* reading: what Esplora.readSlider() returns; draws[r][c]: what random(1, 100)
\* returns for cell (r, c)
randomize(st, reading, draws) ==
    LET slider == map(reading, 0, 1023, 0, 100)
        grid == [r \in Rows |-> [c \in Cols |-> seedValue(draws[r][c], slider)]]
    IN  [st EXCEPT
            !.current_state = grid,
            !.tft = [r \in Rows |-> [c \in Cols |->
                        setColor(grid[r][c], r = st.lastR /\ c = st.lastC)]],
            !.calls = Append(@, "randomize")]

---------------------------------------------------------------------------
(* loop(): one tick *)

\* the globals as a record, with an empty call log and loop()'s local advance
Globals ==
    [current_state |-> current_state, play |-> play, lastR |-> lastR,
     lastC |-> lastC, lastJoystickButton |-> lastJoystickButton, tft |-> tft,
     calls |-> <<>>, advance |-> FALSE]

\* i: the readings of this tick.  "First, check if cursor needs to move"
joystick(st, i) ==
    LET s1 == IF i.joyX > 256 THEN moveCursorLeft(st)
              ELSE IF i.joyX < -256 THEN moveCursorRight(st)
              ELSE st
    IN  IF i.joyY < -256 THEN moveCursorDown(s1)
        ELSE IF i.joyY > 256 THEN moveCursorUp(s1)
        ELSE s1

\* (a chain that tests the play button before the pause button)
buttonsPlayBeforePause(st, i, reading, draws) ==
    IF i.up = LOW THEN randomize(st, reading, draws)
    ELSE IF i.right = LOW THEN [st EXCEPT !.play = TRUE]
    ELSE IF i.down = LOW THEN [st EXCEPT !.play = FALSE]
    ELSE IF i.left = LOW THEN [st EXCEPT !.advance = TRUE]
    ELSE IF i.joystickButton = LOW /\ st.lastJoystickButton = HIGH
         THEN invertCurrentCell(st)
    ELSE st

\* (a chain that tests the joystick-button level, not its edge)
buttonsLevelTriggered(st, i, reading, draws) ==
    IF i.up = LOW THEN randomize(st, reading, draws)
    ELSE IF i.down = LOW THEN [st EXCEPT !.play = FALSE]
    ELSE IF i.right = LOW THEN [st EXCEPT !.play = TRUE]
    ELSE IF i.left = LOW THEN [st EXCEPT !.advance = TRUE]
    ELSE IF i.joystickButton = LOW THEN invertCurrentCell(st)
    ELSE st

\* (a chain whose reset branch lacks the else: the other buttons are still
\* tested after the grid was reseeded)
buttonsResetFallsThrough(st, i, reading, draws) ==
    LET s1 == IF i.up = LOW THEN randomize(st, reading, draws) ELSE st
    IN  IF i.down = LOW THEN [s1 EXCEPT !.play = FALSE]
        ELSE IF i.right = LOW THEN [s1 EXCEPT !.play = TRUE]
        ELSE IF i.left = LOW THEN [s1 EXCEPT !.advance = TRUE]
        ELSE IF i.joystickButton = LOW /\ s1.lastJoystickButton = HIGH
             THEN invertCurrentCell(s1)
        ELSE s1

\* (a reset that also stops the automatic advance)
buttonsResetPauses(st, i, reading, draws) ==
    IF i.up = LOW THEN [randomize(st, reading, draws) EXCEPT !.play = FALSE]
    ELSE IF i.down = LOW THEN [st EXCEPT !.play = FALSE]
    ELSE IF i.right = LOW THEN [st EXCEPT !.play = TRUE]
    ELSE IF i.left = LOW THEN [st EXCEPT !.advance = TRUE]
    ELSE IF i.joystickButton = LOW /\ st.lastJoystickButton = HIGH
         THEN invertCurrentCell(st)
    ELSE st

\* "Then check for each input button": reading and draws are what randomize()
\* gets from the slider and from random() if it is called
buttons(st, i, reading, draws) ==
    IF i.up = LOW THEN randomize(st, reading, draws)
    ELSE IF i.down = LOW THEN [st EXCEPT !.play = FALSE]
    ELSE IF i.right = LOW THEN [st EXCEPT !.play = TRUE]
    ELSE IF i.left = LOW THEN [st EXCEPT !.advance = TRUE]
    ELSE IF i.joystickButton = LOW /\ st.lastJoystickButton = HIGH
         THEN invertCurrentCell(st)
    ELSE st

\* (a test that forgets the local advance)
advanceOrPlayOnlyPlay(st) == IF st.play THEN next(st) ELSE st

\* (a test that advances once for the single step and once more for play)
advanceOrPlayTwice(st) ==
    LET s1 == IF st.advance THEN next(st) ELSE st
    IN  IF st.play THEN next(s1) ELSE s1

\* if (advance || play) next();
advanceOrPlay(st) == IF st.advance \/ st.play THEN next(st) ELSE st

\* (a loop that tests play and advances at the top, before the inputs are
\* handled, and advances for the single step after them)
loopAdvanceFirst(st, i, reading, draws) ==
    LET joystickButton == i.joystickButton
        s1 == IF st.play THEN next(st) ELSE st
        s3 == buttons(joystick(s1, i), i, reading, draws)
        s4 == IF s3.advance THEN next(s3) ELSE s3
    IN  [s4 EXCEPT !.lastJoystickButton = joystickButton]

\* (a loop that remembers the joystick-button level only in ticks that handled
\* no mode button)
loopRemembersWhenIdle(st, i, reading, draws) ==
    LET joystickButton == i.joystickButton
        s4 == advanceOrPlay(buttons(joystick(st, i), i, reading, draws))
    IN  IF i.up = LOW \/ i.down = LOW \/ i.right = LOW \/ i.left = LOW
        THEN s4
        ELSE [s4 EXCEPT !.lastJoystickButton = joystickButton]

loop(st, i, reading, draws) ==
    LET joystickButton == i.joystickButton
        s4 == advanceOrPlay(buttons(joystick(st, i), i, reading, draws))
    IN  [s4 EXCEPT !.lastJoystickButton = joystickButton]

\* setup(): white background, then randomize()
setup(st, reading, draws) == randomize([st EXCEPT !.tft = Background], reading, draws)

---------------------------------------------------------------------------
(* Inputs *)

Levels == {LOW, HIGH}

\* joystick readings: beyond the dead zone either way, and centred
JoyValues == {-257, 0, 257}

AllInputs ==
    [joyX : JoyValues, joyY : JoyValues, up : Levels, down : Levels,
     right : Levels, left : Levels, joystickButton : Levels]

NoInput ==
    [joyX |-> 0, joyY |-> 0, up |-> HIGH, down |-> HIGH, right |-> HIGH,
     left |-> HIGH, joystickButton |-> HIGH]

\* how many controls are operated at once
ActiveCount(i) ==
    Cardinality({f \in {"up", "down", "right", "left", "joystickButton"} : i[f] = LOW})
    + (IF i.joyX # 0 THEN 1 ELSE 0) + (IF i.joyY # 0 THEN 1 ELSE 0)

\* patterns
RowBlinker == {<<16, 16>>, <<16, 17>>, <<16, 18>>}
ColBlinker == {<<15, 17>>, <<16, 17>>, <<17, 17>>}

\* random draws: draws[r][c] is what random(1, 100) returns for cell (r, c)
DrawsFor(S) == [r \in Rows |-> [c \in Cols |-> IF <<r, c>> \in S THEN 99 ELSE 1]]
Gradient == [r \in Rows |-> [c \in Cols |-> ((r * COLS + c) % 99) + 1]]
Flat(v) == [r \in Rows |-> [c \in Cols |-> v]]
Draws == <<DrawsFor(RowBlinker), Gradient, Flat(1), Flat(99)>>

NoSeed == [reading |-> 0, id |-> 0]
\* the seed of the runs from construction: density 50 over draws that leave the
\* row blinker
Seeds == {[reading |-> 512, id |-> 1]}

---------------------------------------------------------------------------
(* The sketch: construction, setup(), then loop() for ever *)

MaxTicks == 2

NoFrame == [r |-> 0, c |-> 0, next |-> <<>>]
NoReads == [r |-> 0, c |-> 0, yx |-> <<>>, seen |-> <<>>]
NoDid == [calls |-> <<>>, advance |-> FALSE]

\* no joystick-button hold in progress: the last reading was HIGH
NoHold == [len |-> 0, flips |-> 0, mode |-> FALSE]

\* a reset, pause, play or single-step button reads pressed
ModeActive(i) == i.up = LOW \/ i.down = LOW \/ i.right = LOW \/ i.left = LOW

\* the hold after a tick that read i and made the calls cs: len counts the
\* consecutive ticks that read the joystick button LOW, flips the calls of
\* invertCurrentCell() in them, mode tells whether a mode button was pressed in
\* the first of them
Held(h, i, cs) ==
    IF i.joystickButton = HIGH THEN NoHold
    ELSE [len |-> h.len + 1,
          flips |-> h.flips + Cardinality({k \in 1 .. Len(cs) : cs[k] = "invertCurrentCell"}),
          mode |-> IF h.len = 0 THEN ModeActive(i) ELSE h.mode]

Snapshot ==
    [current_state |-> current_state, play |-> play, lastR |-> lastR,
     lastC |-> lastC, lastJoystickButton |-> lastJoystickButton, seed |-> seed]

\* the globals after an operation, and what it did
Commit(st) ==
    /\ current_state' = st.current_state
    /\ play' = st.play
    /\ lastR' = st.lastR
    /\ lastC' = st.lastC
    /\ lastJoystickButton' = st.lastJoystickButton
    /\ tft' = st.tft
    /\ did' = [calls |-> st.calls, advance |-> st.advance]
    /\ pre' = Snapshot

\* the state after construction: zero-initialised grid, nothing drawn
Boot ==
    /\ current_state = AllDead
    /\ play = FALSE
    /\ lastR = 0
    /\ lastC = 0
    /\ lastJoystickButton = HIGH
    /\ tft = Undrawn
    /\ pc = "boot"
    /\ frame = NoFrame
    /\ reads = NoReads
    /\ in = NoInput
    /\ seed = NoSeed
    /\ pre = [current_state |-> AllDead, play |-> FALSE, lastR |-> 0, lastC |-> 0,
              lastJoystickButton |-> HIGH, seed |-> NoSeed]
    /\ did = NoDid
    /\ origin = AllDead
    /\ hold = NoHold
    /\ steps = 0

Init == Boot

\* setup() with the slider reading and the draws of one of the seeds S
SetupWith(S) ==
    /\ pc = "boot"
    /\ \E sd \in S :
        /\ Commit(setup(Globals, sd.reading, Draws[sd.id]))
        /\ seed' = sd
    /\ origin' = current_state'
    /\ pc' = "loop"
    /\ UNCHANGED <<frame, reads, in, hold, steps>>

\* one run of loop() on the readings i; a reset draws one of the seeds S
Poll(i, S) ==
    /\ pc = "loop"
    /\ IF i.up = LOW
       THEN \E sd \in S :
                /\ Commit(loop(Globals, i, sd.reading, Draws[sd.id]))
                /\ seed' = sd
       ELSE /\ Commit(loop(Globals, i, 0, <<>>))
            /\ seed' = NoSeed
    /\ in' = i
    /\ hold' = Held(hold, i, did'.calls)
    /\ steps' = steps + 1
    /\ UNCHANGED <<pc, frame, reads, origin>>

\* readings with at most two controls operated at once
Inputs == {i \in AllInputs : ActiveCount(i) <= 2}

Setup == SetupWith(Seeds)

Tick ==
    /\ steps < MaxTicks
    /\ \E i \in Inputs : Poll(i, Seeds)

Next == Setup \/ Tick

Spec == Init /\ [][Next]_vars

---------------------------------------------------------------------------
(* next() on its own: generations of a grid *)

MaxGen == 3

BlockAt(r, c) ==
    {<<r, c>>, <<r, (c + 1) % COLS>>, <<(r + 1) % ROWS, c>>, <<(r + 1) % ROWS, (c + 1) % COLS>>}
BlinkerAt(r, c) == {<<r, c>>, <<r, (c + 1) % COLS>>, <<r, (c + 2) % COLS>>}
WindowAt(r, c) == {<<(r + dr) % ROWS, (c + dc) % COLS>> : dr \in -1 .. 1, dc \in -1 .. 1}
Glider == {<<0, 1>>, <<1, 2>>, <<2, 0>>, <<2, 1>>, <<2, 2>>}

\* the grids next() is run on: every block, the row blinkers of the first, a
\* middle and the last row, every pattern inside the 3 x 3 window around the
\* wrap-around corner, a glider and a dense seeded grid
NextGrids ==
    {GridOf(BlockAt(p[1], p[2])) : p \in Cells}
    \cup {GridOf(BlinkerAt(r, c)) : r \in {0, 16, ROWS - 1}, c \in Cols}
    \cup {GridOf(S) : S \in SUBSET WindowAt(0, 0)}
    \cup {GridOf(Glider), [r \in Rows |-> [c \in Cols |-> Gradient[r][c] >= 50]]}

\* what the display shows when every cell was drawn last with the cursor at (r0, c0)
Rendered(G, r0, c0) == [r \in Rows |-> [c \in Cols |-> setColor(G[r][c], r = r0 /\ c = c0)]]

\* the sketch between two ticks, with grid G on the screen
Running(G, r0, c0, p, b, n) ==
    /\ current_state = G
    /\ play = p
    /\ lastR = r0
    /\ lastC = c0
    /\ lastJoystickButton = b
    /\ tft = Rendered(G, r0, c0)
    /\ pc = "loop"
    /\ frame = NoFrame
    /\ reads = NoReads
    /\ in = NoInput
    /\ seed = NoSeed
    /\ pre = [current_state |-> G, play |-> p, lastR |-> r0, lastC |-> c0,
              lastJoystickButton |-> b, seed |-> NoSeed]
    /\ did = NoDid
    /\ origin = G
    /\ hold = (IF b = LOW THEN [len |-> 1, flips |-> 0, mode |-> TRUE] ELSE NoHold)
    /\ steps = n

InitNext == \E G \in NextGrids : Running(G, 0, 0, FALSE, HIGH, 0)

Generation ==
    /\ pc = "loop"
    /\ steps < MaxGen
    /\ Commit(next(Globals))
    /\ steps' = steps + 1
    /\ UNCHANGED <<pc, frame, reads, in, seed, origin, hold>>

SpecNext == InitNext /\ [][Generation]_vars

---------------------------------------------------------------------------
(* next() cell by cell: the loop over r and c, then the memcpy *)

MaxStepGen == 1

DenseGrid == [r \in Rows |-> [c \in Cols |-> Gradient[r][c] >= 50]]
AllAlive == GridOf(Cells)

StepGrids ==
    {DenseGrid, GridOf(RowBlinker), GridOf(BlockAt(ROWS - 1, COLS - 1))}

InitStep == \E G \in StepGrids : Running(G, 0, 0, FALSE, HIGH, 0)

\* next() is entered: boolean next[32][32] holds whatever the stack held
NextCall ==
    /\ pc = "loop"
    /\ steps < MaxStepGen
    /\ \E garbage \in {AllDead, AllAlive} : frame' = [r |-> 0, c |-> 0, next |-> garbage]
    /\ pc' = "next"
    /\ pre' = Snapshot
    /\ did' = [calls |-> <<"next">>, advance |-> FALSE]
    /\ reads' = NoReads
    /\ UNCHANGED <<current_state, play, lastR, lastC, lastJoystickButton, tft, in,
                   seed, origin, hold, steps>>

\* the body of the two for loops, for cell (frame.r, frame.c)
NextCell ==
    /\ pc = "next"
    /\ LET r == frame.r
           c == frame.c
           yx == Reads[r][c]
           s == stepCell(current_state, frame.next, r, c)
       IN  /\ current_state' = s.grid
           /\ tft' = rect(tft, r, c, setColor(s.value, r = lastR /\ c = lastC))
           /\ reads' = [r |-> r, c |-> c, yx |-> yx,
                        seen |-> [k \in 1 .. Len(yx) |-> current_state[yx[k][1]][yx[k][2]]]]
           /\ frame' = [r |-> IF c = COLS - 1 THEN r + 1 ELSE r,
                        c |-> IF c = COLS - 1 THEN 0 ELSE c + 1,
                        next |-> s.buf]
           /\ pc' = IF r = ROWS - 1 /\ c = COLS - 1 THEN "commit" ELSE "next"
    /\ UNCHANGED <<play, lastR, lastC, lastJoystickButton, in, seed, pre, did,
                   origin, hold, steps>>

\* memcpy(current_state, next, sizeof next), and next() returns
NextCommit ==
    /\ pc = "commit"
    /\ current_state' = frame.next
    /\ frame' = NoFrame
    /\ reads' = NoReads
    /\ pc' = "loop"
    /\ steps' = steps + 1
    /\ UNCHANGED <<play, lastR, lastC, lastJoystickButton, tft, in, seed, pre,
                   did, origin, hold>>

NextStep == NextCall \/ NextCell \/ NextCommit

SpecStep == InitStep /\ [][NextStep]_vars

---------------------------------------------------------------------------
(* The cursor: ticks in which only the joystick is operated *)

MaxMoves == 3

\* joystick readings: the ends of the range, both sides of either threshold,
\* and centred
JoyRange == {-512, -257, -256, 0, 256, 257, 511}

MoveInputs == {[NoInput EXCEPT !.joyX = x, !.joyY = y] : x \in JoyRange, y \in JoyRange}

MoveTick ==
    /\ steps < MaxMoves
    /\ \E i \in MoveInputs : Poll(i, Seeds)

NextCursor == Setup \/ MoveTick

SpecCursor == Init /\ [][NextCursor]_vars

---------------------------------------------------------------------------
(* Seeding: setup(), then resets, over slider readings and draws *)

MaxReseeds == 1

\* slider readings and the densities map() gives them: 0, 1, 50, 99, 99, 100
SeedReadings == {0, 11, 512, 1013, 1022, 1023}

SeedChoices == [reading : SeedReadings, id : 1 .. Len(Draws)]

SeedSetup == SetupWith(SeedChoices)

Reseed ==
    /\ steps < MaxReseeds
    /\ Poll([NoInput EXCEPT !.up = LOW], SeedChoices)

NextSeed == SeedSetup \/ Reseed

SpecSeed == Init /\ [][NextSeed]_vars

---------------------------------------------------------------------------
(* The buttons: ticks in which the joystick is centred and at most one of the
   four mode buttons is pressed, with the joystick button pressed or not *)

MaxPresses == 3

ButtonInputs ==
    {i \in AllInputs :
        /\ i.joyX = 0 /\ i.joyY = 0
        /\ Cardinality({f \in {"up", "down", "right", "left"} : i[f] = LOW}) <= 1}

ButtonTick ==
    /\ steps < MaxPresses
    /\ \E i \in ButtonInputs : Poll(i, Seeds)

NextButtons == Setup \/ ButtonTick

SpecButtons == Init /\ [][NextButtons]_vars

---------------------------------------------------------------------------
(* One tick on every combination of readings, from states between two ticks *)

TickGrids == {GridOf(RowBlinker), DenseGrid}
TickSeeds == {[reading |-> 512, id |-> 1], [reading |-> 512, id |-> 2]}

\* the last tick of a run: any grid on the screen, the cursor in the corner or
\* in the middle, paused or playing, the joystick button held or not
InitTick ==
    \E G \in TickGrids, q \in {<<0, 0>>, <<16, 17>>}, p \in BOOLEAN, b \in Levels :
        Running(G, q[1], q[2], p, b, MaxTicks - 1)

AnyTick ==
    /\ steps < MaxTicks
    /\ \E i \in AllInputs : Poll(i, TickSeeds)

SpecTick == InitTick /\ [][AnyTick]_vars

---------------------------------------------------------------------------
(* Properties of next() *)

\* the 8 toroidal neighbours of a cell, by modular arithmetic
TorusNeighbours ==
    [r \in Rows |-> [c \in Cols |->
        {<<(r + d[1]) % ROWS, (c + d[2]) % COLS>> :
            d \in ((-1 .. 1) \X (-1 .. 1)) \ {<<0, 0>>}}]]

\* Conway's rule for cell (r, c) of grid G
LifeRule(G, r, c) ==
    LET n == Cardinality({q \in TorusNeighbours[r][c] : G[q[1]][q[2]]})
    IN  \/ G[r][c] /\ n \in {2, 3}
        \/ ~G[r][c] /\ n = 3

RowBlinkerGrid == GridOf(RowBlinker)
ColBlinkerGrid == GridOf(ColBlinker)
CornerBlinkerGrid == GridOf(BlinkerAt(0, COLS - 1))
CornerBlockGrid == GridOf(BlockAt(ROWS - 1, COLS - 1))

\* C1: after one call of next() a cell is alive iff it was alive with 2 or 3
\* alive toroidal neighbours, or dead with exactly 3, in the grid before the
\* call; every other cell is dead.
C1_NextAppliesLifeRule ==
    did.calls = <<"next">> =>
        \A r \in Rows, c \in Cols :
            current_state[r][c] = LifeRule(pre.current_state, r, c)

\* a blinker lying across the wrap-around corner has turned: births in the last
\* and the second row, deaths at both ends, the middle cell survives
C1_Witness ==
    /\ did.calls = <<"next">>
    /\ pre.current_state = CornerBlinkerGrid
    /\ current_state[ROWS - 1][0] /\ current_state[1][0] /\ current_state[0][0]
    /\ ~current_state[0][COLS - 1] /\ ~current_state[0][1]

IsBlock(A) == \E p \in A : A = BlockAt(p[1], p[2])
IsRowBlinker(A) == \E p \in A : A = BlinkerAt(p[1], p[2])

\* C4: a grid whose only alive cells form a 2 x 2 block, wherever it lies, is
\* the same grid after any number of calls of next().
C4_BlockIsStillLife ==
    IsBlock(AliveSet(origin)) => current_state = origin

\* the block that straddles both wrap-around edges, after two calls and more
C4_Witness ==
    /\ steps >= 2
    /\ did.calls = <<"next">>
    /\ origin = CornerBlockGrid
    /\ current_state = CornerBlockGrid

\* C5: a grid whose only alive cells are 3 consecutive cells of one row differs
\* from itself after one call of next() and is itself again after two.
C5_BlinkerPeriodTwo ==
    IsRowBlinker(AliveSet(origin)) =>
        /\ steps = 1 => current_state # origin
        /\ steps = 2 => current_state = origin

\* the row blinker is back after passing through the column blinker
C5_Witness ==
    /\ steps = 2
    /\ origin = RowBlinkerGrid
    /\ pre.current_state = ColBlinkerGrid
    /\ current_state = RowBlinkerGrid

\* C2: while next() computes the new generation the current grid is not
\* modified: every neighbour read sees the grid as it was when next() was
\* called, the commit comes after the last cell, and what next() leaves is the
\* cell-by-cell computation over that snapshot.
C2_NextReadsOnlyTheSnapshot ==
    /\ pc \in {"next", "commit"} => current_state = pre.current_state
    /\ \A k \in 1 .. Len(reads.seen) :
          reads.seen[k] = pre.current_state[reads.yx[k][1]][reads.yx[k][2]]
    /\ pc = "commit" => frame.r = ROWS /\ frame.c = 0
    /\ (pc = "loop" /\ did.calls = <<"next">>) => current_state = NextGen(pre.current_state)

\* next() has returned a new generation of the dense grid
C2_Witness ==
    /\ pc = "loop"
    /\ did.calls = <<"next">>
    /\ pre.current_state = DenseGrid
    /\ current_state # DenseGrid

\* C3: the 8 coordinates next() reads for a cell are inside the grid, pairwise
\* distinct, never the cell itself, and are its toroidal neighbours; for cell
\* (0, 0) they include (ROWS-1, COLS-1), (ROWS-1, 0) and (0, COLS-1).
C3_NeighbourReadsWrap ==
    Len(reads.yx) > 0 =>
        LET N == {reads.yx[k] : k \in 1 .. Len(reads.yx)}
        IN  /\ Len(reads.yx) = 8
            /\ N \subseteq Cells
            /\ Cardinality(N) = 8
            /\ <<reads.r, reads.c>> \notin N
            /\ N = TorusNeighbours[reads.r][reads.c]
            /\ (reads.r = 0 /\ reads.c = 0) =>
                  {<<ROWS - 1, COLS - 1>>, <<ROWS - 1, 0>>, <<0, COLS - 1>>} \subseteq N
            /\ (reads.r = ROWS - 1 /\ reads.c = COLS - 1) =>
                  {<<0, 0>>, <<0, COLS - 1>>, <<ROWS - 1, 0>>} \subseteq N

\* the reads of the corner cell (0, 0) reach the three other corners
C3_Witness ==
    /\ Len(reads.yx) = 8
    /\ reads.r = 0
    /\ reads.c = 0
    /\ \E k \in 1 .. 8 : reads.yx[k] = <<ROWS - 1, COLS - 1>>
    /\ \E k \in 1 .. 8 : reads.yx[k] = <<ROWS - 1, 0>>
    /\ \E k \in 1 .. 8 : reads.yx[k] = <<0, COLS - 1>>

---------------------------------------------------------------------------
(* Properties of the tick, the cursor and the seeding *)

OnlyStep == [NoInput EXCEPT !.left = LOW]

\* C6: paused, with only (16,16), (16,17), (16,18) alive, a tick in which only
\* the single-step button is pressed leaves only (15,17), (16,17), (17,17)
\* alive.
C6_StepTurnsTheBlinker ==
    (in = OnlyStep /\ ~pre.play /\ AliveSet(pre.current_state) = RowBlinker) =>
        AliveSet(current_state) = ColBlinker

\* the seeded row blinker, stepped once
C6_Witness ==
    /\ in = OnlyStep
    /\ ~pre.play
    /\ pre.current_state = RowBlinkerGrid
    /\ did.calls = <<"next">>
    /\ current_state = ColBlinkerGrid

\* C7: the cursor is inside the grid in every state, and it starts at (0, 0).
C7_CursorInBounds ==
    /\ lastR \in Rows
    /\ lastC \in Cols
    /\ steps = 0 => (lastR = 0 /\ lastC = 0)

\* one diagonal tick from (0, 0) has wrapped the cursor to the far corner
C7_Witness ==
    /\ pc = "loop"
    /\ pre.lastR = 0 /\ pre.lastC = 0
    /\ did.calls = <<"moveCursorLeft", "moveCursorDown">>
    /\ lastR = ROWS - 1 /\ lastC = COLS - 1

Called(f) == \E k \in 1 .. Len(did.calls) : did.calls[k] = f

MoveOps == {"moveCursorLeft", "moveCursorRight", "moveCursorUp", "moveCursorDown"}
Opposite ==
    {<<"moveCursorLeft", "moveCursorRight">>, <<"moveCursorRight", "moveCursorLeft">>,
     <<"moveCursorUp", "moveCursorDown">>, <<"moveCursorDown", "moveCursorUp">>}

\* what the moves of the last tick did to the cursor and to the grid
MoveEffect ==
    /\ did.calls = <<"moveCursorLeft">> =>
          lastC = (pre.lastC - 1) % COLS /\ lastR = pre.lastR
    /\ did.calls = <<"moveCursorRight">> =>
          lastC = (pre.lastC + 1) % COLS /\ lastR = pre.lastR
    /\ did.calls = <<"moveCursorUp">> =>
          lastR = (pre.lastR + 1) % ROWS /\ lastC = pre.lastC
    /\ did.calls = <<"moveCursorDown">> =>
          lastR = (pre.lastR - 1) % ROWS /\ lastC = pre.lastC
    /\ (did.calls # <<>> /\ \A k \in 1 .. Len(did.calls) : did.calls[k] \in MoveOps) =>
          /\ current_state = pre.current_state
          /\ lastC = (pre.lastC + (IF Called("moveCursorLeft") THEN -1
                                   ELSE IF Called("moveCursorRight") THEN 1 ELSE 0)) % COLS
          /\ lastR = (pre.lastR + (IF Called("moveCursorDown") THEN -1
                                   ELSE IF Called("moveCursorUp") THEN 1 ELSE 0)) % ROWS

\* a tick that made one move, followed by a tick that made the opposite move
RoundTrip ==
    \A o \in Opposite :
        (did.calls = <<o[1]>> /\ did'.calls = <<o[2]>>) =>
            (lastR' = pre.lastR /\ lastC' = pre.lastC)

\* C8: each move operation changes one axis of the cursor by one step modulo
\* the grid dimension (left from column 0 lands on COLS-1, right from COLS-1 on
\* 0, likewise the rows) and leaves the other axis and the grid unchanged; a
\* move followed by the opposite move restores the cursor.
C8_MovesStepAndWrap == []MoveEffect /\ [][RoundTrip]_vars

\* right from the last column lands on column 0, after left took it there
C8_Witness ==
    /\ steps = 2
    /\ did.calls = <<"moveCursorRight">>
    /\ pre.lastC = COLS - 1
    /\ lastC = 0
    /\ lastR = 0

\* C9: randomize() with density D sets each cell alive iff its draw, a value in
\* [1, 99], is >= D; with D = 100 every cell is dead; seeding again with the
\* same draws and a density no higher kills no cell.
C9_SeedingFollowsDensity ==
    seed.id # 0 =>
        LET D == (seed.reading * 100) \div 1023
            draws == Draws[seed.id]
        IN  /\ D \in 0 .. 100
            /\ \A r \in Rows, c \in Cols :
                  /\ draws[r][c] \in RandomRange
                  /\ current_state[r][c] <=> draws[r][c] >= D
            /\ D = 100 => AliveSet(current_state) = {}
            /\ (pre.seed.id = seed.id /\ D <= (pre.seed.reading * 100) \div 1023) =>
                  \A r \in Rows, c \in Cols : pre.current_state[r][c] => current_state[r][c]

\* the dense grid seeded at density 50 is reseeded at density 100: all dead
C9_Witness ==
    /\ did.calls = <<"randomize">>
    /\ seed = [reading |-> 1023, id |-> 2]
    /\ pre.seed = [reading |-> 512, id |-> 2]
    /\ pre.current_state = DenseGrid
    /\ AliveSet(current_state) = {}

\* C10: of the inputs reset, pause, play, single-step and cursor toggle that are
\* active in a tick, only the first in that order is acted on.
C10_HighestPriorityInputWins ==
    LET toggle == in.joystickButton = LOW /\ pre.lastJoystickButton = HIGH
    IN  /\ in.up = LOW =>
              /\ Called("randomize")
              /\ play = pre.play /\ ~did.advance /\ ~Called("invertCurrentCell")
        /\ (in.up = HIGH /\ in.down = LOW) =>
              /\ play = FALSE
              /\ ~Called("randomize") /\ ~did.advance /\ ~Called("invertCurrentCell")
        /\ (in.up = HIGH /\ in.down = HIGH /\ in.right = LOW) =>
              /\ play = TRUE
              /\ ~Called("randomize") /\ ~did.advance /\ ~Called("invertCurrentCell")
        /\ (in.up = HIGH /\ in.down = HIGH /\ in.right = HIGH /\ in.left = LOW) =>
              /\ did.advance
              /\ ~Called("randomize") /\ play = pre.play /\ ~Called("invertCurrentCell")
        /\ (in.up = HIGH /\ in.down = HIGH /\ in.right = HIGH /\ in.left = HIGH /\ toggle) =>
              /\ Called("invertCurrentCell")
              /\ ~Called("randomize") /\ play = pre.play /\ ~did.advance

\* all five at once while playing: the grid is reseeded, play stays on, nothing
\* else is acted on
C10_Witness ==
    /\ in.up = LOW /\ in.down = LOW /\ in.right = LOW /\ in.left = LOW
    /\ in.joystickButton = LOW /\ pre.lastJoystickButton = HIGH
    /\ pre.play /\ play
    /\ did = [calls |-> <<"randomize", "next">>, advance |-> FALSE]

---------------------------------------------------------------------------
(* Properties of the run state and of the order of a tick *)

\* the event applied by the last tick: the first of reset, pause, play,
\* single-step that read pressed, else the joystick button if this was the
\* first tick that read it pressed
Event ==
    IF in.up = LOW THEN "reset"
    ELSE IF in.down = LOW THEN "pause"
    ELSE IF in.right = LOW THEN "play"
    ELSE IF in.left = LOW THEN "step"
    ELSE IF in.joystickButton = LOW /\ hold.len = 1 THEN "toggle"
    ELSE "none"

\* the last tick of the run has run: what the state records is that tick
LastTickDone == pc = "loop" /\ steps = MaxTicks

\* how often the last operation called f
Count(f) == Cardinality({k \in 1 .. Len(did.calls) : did.calls[k] = f})

C12_StepAdvancesOneGeneration ==
    Event = "step" =>
        /\ Count("next") = 1
        /\ \A r \in Rows, c \in Cols :
              current_state[r][c] = LifeRule(pre.current_state, r, c)

\* a single step while Playing turns the row blinker once, not twice
C12_Witness ==
    /\ Event = "step"
    /\ pre.play /\ play
    /\ pre.current_state = RowBlinkerGrid
    /\ current_state = ColBlinkerGrid

\* the grid a reset of the last tick seeded: alive where the draw reaches the
\* density
SeededGrid ==
    LET D == (seed.reading * 100) \div 1023
    IN  [r \in Rows |-> [c \in Cols |-> Draws[seed.id][r][c] >= D]]

\* the grid the events of the last tick left for the advance: reseeded by a
\* reset, the cursor cell flipped by a toggle (the cursor is where the tick's
\* moves took it), else the grid before the tick
Settled ==
    IF Event = "reset" THEN SeededGrid
    ELSE IF Event = "toggle" THEN [pre.current_state EXCEPT ![lastR][lastC] = ~@]
    ELSE pre.current_state

\* C13: in every tick next() runs exactly once if, after the tick's button
\* events, the run state is Playing or a single step was applied, and not at
\* all otherwise; it runs last, on the grid that already holds the tick's
\* reseed or flip; a tick that ends Paused with no reset, single step or toggle
\* applied leaves the grid unchanged.
C13_AdvanceComesLast ==
    LastTickDone =>
        /\ Count("next") = (IF play \/ Event = "step" THEN 1 ELSE 0)
        /\ Count("next") = 1 =>
              /\ did.calls[Len(did.calls)] = "next"
              /\ \A r \in Rows, c \in Cols :
                    current_state[r][c] = LifeRule(Settled, r, c)
        /\ Count("next") = 0 => current_state = Settled
        /\ (~play /\ Event \notin {"reset", "step", "toggle"}) =>
              current_state = pre.current_state

\* playing, the middle cell of the row blinker is toggled off: the two cells
\* left die in the advance of the same tick
C13_Witness ==
    /\ LastTickDone
    /\ Event = "toggle"
    /\ play
    /\ did.calls = <<"invertCurrentCell", "next">>
    /\ pre.current_state = RowBlinkerGrid
    /\ lastR = 16 /\ lastC = 17
    /\ AliveSet(current_state) = {}

\* C15: the single step advances one generation and then pauses: after a tick
\* whose applied event is the single step the run state is Paused (so that a
\* following tick with no input does not advance the grid).
C15_StepThenPauses ==
    Event = "step" => ~play

\* what the last tick applied, by category
MovesMade == Cardinality({k \in 1 .. Len(did.calls) : did.calls[k] \in MoveOps})
HorizontalMoves == Count("moveCursorLeft") + Count("moveCursorRight")
VerticalMoves == Count("moveCursorUp") + Count("moveCursorDown")
ModeActions ==
    Count("randomize") + (IF play # pre.play THEN 1 ELSE 0)
    + (IF did.advance THEN 1 ELSE 0)

\* the moves come first, the advance last
InTickOrder ==
    /\ \A k \in 1 .. Len(did.calls) :
          did.calls[k] \in MoveOps => \A j \in 1 .. k : did.calls[j] \in MoveOps
    /\ Count("next") = 1 => did.calls[Len(did.calls)] = "next"

\* C16 as stated: each tick applies at most one cursor movement, at most one
\* mode-button action (reset, pause, play or single step) and at most one
\* cursor toggle, followed by at most one generation advance.
C16_OneActionPerCategory ==
    /\ MovesMade <= 1
    /\ ModeActions <= 1
    /\ Count("invertCurrentCell") <= 1
    /\ Count("next") <= 1
    /\ InTickOrder

\* C16, amended: each tick applies at most one horizontal and at most one
\* vertical cursor movement, at most one mode-button action and at most one
\* cursor toggle, followed by at most one generation advance.
C16_OneActionPerAxisAndCategory ==
    /\ HorizontalMoves <= 1
    /\ VerticalMoves <= 1
    /\ ModeActions <= 1
    /\ Count("invertCurrentCell") <= 1
    /\ Count("next") <= 1
    /\ InTickOrder

\* playing, a diagonal deflection with the joystick button pressed: two moves,
\* the toggle and the advance in one tick
C16_Witness ==
    /\ in.joyX > 256 /\ in.joyY > 256
    /\ did.calls = <<"moveCursorLeft", "moveCursorUp", "invertCurrentCell", "next">>
    /\ play = pre.play /\ ~did.advance

\* C17: invertCurrentCell() flips exactly the cell under the cursor and leaves
\* every other cell, the cursor and the run state unchanged; no operation other
\* than the four moves changes the cursor: next(), randomize() and
\* invertCurrentCell() leave it where it was.
C17_ToggleFlipsOnlyTheCursorCell ==
    /\ (Count("invertCurrentCell") = 1 /\ Count("next") = 0) =>
          /\ \A r \in Rows, c \in Cols :
                current_state[r][c] =
                    (pre.current_state[r][c] # (r = lastR /\ c = lastC))
          /\ play = pre.play
    /\ did.calls = <<"invertCurrentCell">> =>
          lastR = pre.lastR /\ lastC = pre.lastC
    /\ MovesMade = 0 => (lastR = pre.lastR /\ lastC = pre.lastC)

\* the middle cell of the row blinker is toggled off: its two neighbours are
\* all that is left, the cursor has not moved
C17_Witness ==
    /\ did.calls = <<"invertCurrentCell">>
    /\ pre.current_state = RowBlinkerGrid
    /\ lastR = 16 /\ lastC = 17
    /\ pre.lastR = 16 /\ pre.lastC = 17
    /\ AliveSet(current_state) = {<<16, 16>>, <<16, 18>>}

---------------------------------------------------------------------------
(* Properties of the display *)

\* what a colour on the display says about the cell
ShownAlive(colour) == colour \in {Green, Black}
ShownHighlighted(colour) == colour \in {Green, Orange}

\* C18: at the end of setup() and of every tick, the last rectangle drawn for
\* each cell shows the cell's current value, highlighted iff the cell is the
\* cursor cell, so exactly one cell is shown highlighted.
C18_DisplayMatchesState ==
    pc = "loop" =>
        /\ \A r \in Rows, c \in Cols :
              /\ tft[r][c] \in {Green, Black, Orange, White}
              /\ ShownAlive(tft[r][c]) = current_state[r][c]
              /\ ShownHighlighted(tft[r][c]) = (r = lastR /\ c = lastC)
        /\ Cardinality({p \in Cells : ShownHighlighted(tft[p[1]][p[2]])}) = 1

\* a diagonal move from the corner, then a toggle: the cell left is shown dead
\* and plain, the cell reached alive and highlighted
C18_Witness ==
    /\ steps = 2
    /\ did.calls = <<"invertCurrentCell">>
    /\ lastR = ROWS - 1 /\ lastC = COLS - 1
    /\ tft[0][0] = White
    /\ tft[ROWS - 1][COLS - 1] = Green

---------------------------------------------------------------------------
(* Properties of the joystick button *)

\* C14 as stated: over any run of consecutive ticks that read the joystick
\* button pressed, preceded by a tick that read it not pressed or by startup,
\* the cell under the cursor is flipped exactly once.
C14_EveryHoldFlipsOnce ==
    hold.len >= 1 => hold.flips = 1

\* C14, amended: over such a run the cell under the cursor is flipped at most
\* once, not once per tick, and exactly once if no reset, pause, play or
\* single-step button read pressed in the first tick of the run.
C14_HoldFlipsAtMostOnce ==
    hold.len >= 1 =>
        /\ hold.flips <= 1
        /\ ~hold.mode => hold.flips = 1

\* the joystick button pressed at the first tick and held through the third:
\* one flip, made by the first tick
C14_Witness ==
    /\ hold = [len |-> 3, flips |-> 1, mode |-> FALSE]
    /\ in.joystickButton = LOW
    /\ ~Called("invertCurrentCell")

\* C19: the remembered joystick-button level is updated at the end of every
\* tick whatever was applied, so a press whose first tick also read a reset,
\* pause, play or single-step button pressed is consumed: the cell is flipped
\* neither in that tick nor in any later tick of the same hold, even after the
\* mode button is released.
C19_PressUnderModeButtonIsConsumed ==
    /\ lastJoystickButton = in.joystickButton
    /\ (hold.len >= 1 /\ hold.mode) => hold.flips = 0

\* pressed together with the single-step button, then held alone for a tick,
\* paused: no flip, the grid is left as the step left it
C19_Witness ==
    /\ hold = [len |-> 2, flips |-> 0, mode |-> TRUE]
    /\ in = [NoInput EXCEPT !.joystickButton = LOW]
    /\ lastJoystickButton = LOW
    /\ did.calls = <<>>
    /\ current_state = pre.current_state
    /\ current_state = ColBlinkerGrid

============================================================================
